---------------------------- MODULE Spec2Model ----------------------------
(* Model of homeoffice.c: the SPI client of the "homeoffice" peripheral.   *)
(* The program state is the globals gs_spi_fd and gs_homeoffice_data, the  *)
(* local `choice` of main, and the position of main.  Every system call    *)
(* the program makes (open, ioctl, close, exit) is one step; its outcome   *)
(* (success or failure, the frame clocked in on MISO) is chosen by the     *)
(* environment.  A second specification, SpecPeriph, puts a peripheral on   *)
(* the bus that applies the relay commands and answers each command with   *)
(* its relay state.                                                        *)
EXTENDS Integers, Sequences, FiniteSets, TLC

(* ------------------------------ bounds -------------------------------- *)

\* number of menu iterations explored
MaxIter == 3

(* ------------------------- program constants -------------------------- *)

SPI_MODE == 0
SPI_BITS_PER_WORD == 8
SPI_SPEED_HZ == 100000

CMD_READ_VOLTAGE == 1
CMD_READ_CURRENT == 2
CMD_READ_POWER == 3
CMD_READ_RELAY == 4
CMD_READ_ALL == 5
CMD_SET_RELAY_ON == 6
CMD_SET_RELAY_OFF == 7

\* uint8_t sendbuf[20], recvbuf[20]; transfer.len = 20
FRAME_LEN == 20
\* memcpy(rx_buf, &recvbuf[3], len)
PAYLOAD_OFFSET == 3
\* data = recvbuf[2]: the byte the debug trace names as the reply's command
ECHO_OFFSET == 2

\* sizeof(float), sizeof(uint8_t) on the target (arm-linux-gnueabihf)
SIZEOF_FLOAT == 4
SIZEOF_UINT8 == 1
\* struct homeoffice_data, packed and aligned(4): the fields take 13 bytes
\* and the size is rounded up to the alignment
OFFSETOF_voltage == 0
OFFSETOF_current == 4
OFFSETOF_power == 8
OFFSETOF_relay == 12
STRUCT_ALIGN == 4
SIZEOF_FIELDS == OFFSETOF_relay + SIZEOF_UINT8
SIZEOF_homeoffice_data ==
    ((SIZEOF_FIELDS + STRUCT_ALIGN - 1) \div STRUCT_ALIGN) * STRUCT_ALIGN

\* the descriptor a successful open() returns (0..2 are the standard streams)
FD_FIRST == 3

(* ------------------------------ memory -------------------------------- *)

Byte == 0..255

ZeroBytes(n) == [i \in 0..(n - 1) |-> 0]

\* memcpy(dst + doff, src + soff, n) on byte arrays indexed from 0
memcpy(dst, doff, src, soff, n) ==
    [i \in DOMAIN dst |->
        IF doff <= i /\ i < doff + n THEN src[soff + (i - doff)] ELSE dst[i]]

\* variant: the buffer is left as it is
memset0_skipped(dst) == dst

\* memset(dst, 0, sizeof(dst))
memset0(dst) == [i \in DOMAIN dst |-> 0]

\* the bytes mem[off .. off+n-1] as a sequence
Bytes(mem, off, n) == [k \in 1..n |-> mem[off + (k - 1)]]

\* pointers: NULL, a pointer to a byte array, a pointer into gs_homeoffice_data
NULL == [null |-> TRUE, bytes |-> ZeroBytes(1), off |-> 0]
PtrTo(b) == [null |-> FALSE, bytes |-> b, off |-> 0]
PtrField(o) == [null |-> FALSE, bytes |-> ZeroBytes(1), off |-> o]

(* ---------------------- frames the peripheral sends -------------------- *)

\* bytes 0..2 of a reply
Headers ==
    { [i \in 0..2 |-> 0],
      [i \in 0..2 |-> IF i = ECHO_OFFSET THEN CMD_READ_CURRENT ELSE 0],
      [i \in 0..2 |-> IF i = ECHO_OFFSET THEN 255 ELSE 165] }

\* bytes 3..19 of a reply: all zero; a ramp (every position a different
\* value); the float 0.5 (00 00 00 3F) in every float slot with relay 1;
\* a descending ramp
Payloads ==
    { [i \in PAYLOAD_OFFSET..(FRAME_LEN - 1) |-> 0],
      [i \in PAYLOAD_OFFSET..(FRAME_LEN - 1) |-> 16 + i],
      [i \in PAYLOAD_OFFSET..(FRAME_LEN - 1) |->
          IF i \in {6, 10, 14} THEN 63 ELSE IF i = 15 THEN 1 ELSE 0],
      [i \in PAYLOAD_OFFSET..(FRAME_LEN - 1) |-> 255 - i] }

MkFrame(h, p) ==
    [i \in 0..(FRAME_LEN - 1) |-> IF i < PAYLOAD_OFFSET THEN h[i] ELSE p[i]]

RxFrames == { MkFrame(h, p) : h \in Headers, p \in Payloads }

(* ------------------------------- state -------------------------------- *)

VARIABLES
    pc,                  \* position of main
    gs_spi_fd,           \* static int gs_spi_fd
    fd_state,            \* the descriptor: "none", "open" or "closed"
    gs_homeoffice_data,  \* static homeoffice_data, as its 16 bytes
    choice,              \* int choice of main
    call,                \* the operation the switch dispatched to
    bus,                 \* the exchanges of the current menu iteration
    sys,                 \* every system call made so far: <<call, arg, ret>>
    out,                 \* lines printed since the last system("clear")
    err,                 \* the perror diagnostic, "" if none
    exit_code,           \* -1 while running, then the exit status
    entry_data,          \* gs_homeoffice_data when the operation was entered
    iter,                \* menu iterations started
    periph,              \* the peripheral: its relay, the last command it got
    prev                 \* the previous menu iteration: operation, relay shown

vars == <<pc, gs_spi_fd, fd_state, gs_homeoffice_data, choice, call, bus,
          sys, out, err, exit_code, entry_data, iter, periph, prev>>

(* ------------------------- struct field access ------------------------- *)

\* gs_homeoffice_data.voltage etc.: a float is kept as its 4 bytes
voltage(mem) == Bytes(mem, OFFSETOF_voltage, SIZEOF_FLOAT)
current(mem) == Bytes(mem, OFFSETOF_current, SIZEOF_FLOAT)
\* variant: power read from the slot of current
power_at_current(mem) == Bytes(mem, OFFSETOF_current, SIZEOF_FLOAT)

power(mem) == Bytes(mem, OFFSETOF_power, SIZEOF_FLOAT)
relay(mem) == mem[OFFSETOF_relay]

(* ----------------------------- spi_transfer ---------------------------- *)

\* variant: the command is copied one byte too far into sendbuf
spi_transfer_shifted(tx_buf, rx_buf, len, ok, miso, mem) ==
    LET sendbuf == IF ~tx_buf.null
                   THEN memcpy(ZeroBytes(FRAME_LEN), 1, tx_buf.bytes, 0, len)
                   ELSE ZeroBytes(FRAME_LEN)
    IN  [ sendbuf |-> sendbuf,
          xfer_len |-> FRAME_LEN,
          failed |-> ~ok,
          mem |-> IF ok /\ ~rx_buf.null
                  THEN memcpy(mem, rx_buf.off, miso, PAYLOAD_OFFSET, len)
                  ELSE mem ]

\* variant: the payload is taken from the echo byte onwards
spi_transfer_from_echo(tx_buf, rx_buf, len, ok, miso, mem) ==
    LET sendbuf == IF ~tx_buf.null
                   THEN memcpy(ZeroBytes(FRAME_LEN), 0, tx_buf.bytes, 0, len)
                   ELSE ZeroBytes(FRAME_LEN)
    IN  [ sendbuf |-> sendbuf,
          xfer_len |-> FRAME_LEN,
          failed |-> ~ok,
          mem |-> IF ok /\ ~rx_buf.null
                  THEN memcpy(mem, rx_buf.off, miso, ECHO_OFFSET, len)
                  ELSE mem ]

\* variant: the result of ioctl(SPI_IOC_MESSAGE(1)) is not looked at
spi_transfer_unchecked(tx_buf, rx_buf, len, ok, miso, mem) ==
    LET sendbuf == IF ~tx_buf.null
                   THEN memcpy(ZeroBytes(FRAME_LEN), 0, tx_buf.bytes, 0, len)
                   ELSE ZeroBytes(FRAME_LEN)
    IN  [ sendbuf |-> sendbuf,
          xfer_len |-> FRAME_LEN,
          failed |-> FALSE,
          mem |-> IF ~rx_buf.null
                  THEN memcpy(mem, rx_buf.off, miso, PAYLOAD_OFFSET, len)
                  ELSE mem ]

\* spi_transfer(tx_buf, rx_buf, len), given what the driver does: ok is
\* whether ioctl(SPI_IOC_MESSAGE(1)) succeeds, miso the 20 bytes it stores
\* in recvbuf.  Yields the frame sent, whether exit(1) is taken, and
\* gs_homeoffice_data afterwards.
spi_transfer(tx_buf, rx_buf, len, ok, miso, mem) ==
    LET sendbuf == IF ~tx_buf.null
                   THEN memcpy(ZeroBytes(FRAME_LEN), 0, tx_buf.bytes, 0, len)
                   ELSE ZeroBytes(FRAME_LEN)
        recvbuf == miso
    IN  [ sendbuf |-> sendbuf,
          xfer_len |-> FRAME_LEN,
          failed |-> ~ok,
          mem |-> IF ok /\ ~rx_buf.null
                  THEN memcpy(mem, rx_buf.off, recvbuf, PAYLOAD_OFFSET, len)
                  ELSE mem ]

\* variant: spi_write hands spi_transfer the relay field as receive buffer
spi_write_receiving(cmd, ok, miso, mem) ==
    spi_transfer(PtrTo([i \in 0..0 |-> cmd]), PtrField(OFFSETOF_relay), 1,
                 ok, miso, mem)

\* spi_write(cmd): spi_transfer(&cmd, NULL, 1)
spi_write(cmd, ok, miso, mem) ==
    spi_transfer(PtrTo([i \in 0..0 |-> cmd]), NULL, 1, ok, miso, mem)

\* variant: the read exchange repeats a command instead of sending zeros
spi_read_resend(rx_buf, len, ok, miso, mem) ==
    spi_transfer(PtrTo([i \in 0..(len - 1) |-> IF i = 0 THEN CMD_READ_ALL ELSE 0]),
                 rx_buf, len, ok, miso, mem)

\* spi_read(rx_buf, len): spi_transfer(NULL, rx_buf, len)
spi_read(rx_buf, len, ok, miso, mem) ==
    spi_transfer(NULL, rx_buf, len, ok, miso, mem)

\* the arguments spi_write and spi_read pass to spi_transfer
spi_write_call(cmd) ==
    [ tx_buf |-> PtrTo([i \in 0..0 |-> cmd]), rx_buf |-> NULL, len |-> 1 ]

spi_read_call(rx_buf, len) == [ tx_buf |-> NULL, rx_buf |-> rx_buf, len |-> len ]

\* the two memcpy calls of spi_transfer: how many bytes go into sendbuf, and
\* one past the last index of recvbuf that is read
tx_copy_len(tx_buf, len) == IF ~tx_buf.null THEN len ELSE 0

rx_copy_end(rx_buf, len) == IF ~rx_buf.null THEN PAYLOAD_OFFSET + len ELSE 0

(* ----------------------------- operations ------------------------------ *)

\* each operation: the command it writes, where and how much it reads
spi_read_voltage ==
    [ name |-> "spi_read_voltage", cmd |-> CMD_READ_VOLTAGE,
      rx_buf |-> PtrField(OFFSETOF_voltage), len |-> SIZEOF_FLOAT ]

\* variant: the current is stored in the power field
spi_read_current_into_power ==
    [ name |-> "spi_read_current", cmd |-> CMD_READ_CURRENT,
      rx_buf |-> PtrField(OFFSETOF_power), len |-> SIZEOF_FLOAT ]

spi_read_current ==
    [ name |-> "spi_read_current", cmd |-> CMD_READ_CURRENT,
      rx_buf |-> PtrField(OFFSETOF_current), len |-> SIZEOF_FLOAT ]

spi_read_power ==
    [ name |-> "spi_read_power", cmd |-> CMD_READ_POWER,
      rx_buf |-> PtrField(OFFSETOF_power), len |-> SIZEOF_FLOAT ]

\* variant: a whole frame is read into the structure
spi_read_all_whole_frame ==
    [ name |-> "spi_read_all", cmd |-> CMD_READ_ALL,
      rx_buf |-> PtrField(0), len |-> FRAME_LEN ]

\* variant: only the 13 bytes of the fields are read
spi_read_all_fields_only ==
    [ name |-> "spi_read_all", cmd |-> CMD_READ_ALL,
      rx_buf |-> PtrField(0), len |-> SIZEOF_FIELDS ]

spi_read_all ==
    [ name |-> "spi_read_all", cmd |-> CMD_READ_ALL,
      rx_buf |-> PtrField(0), len |-> SIZEOF_homeoffice_data ]

\* variant: readRelay sends the command of readVoltage
spi_read_relay_wrong_cmd ==
    [ name |-> "spi_read_relay", cmd |-> CMD_READ_VOLTAGE,
      rx_buf |-> PtrField(OFFSETOF_relay), len |-> SIZEOF_UINT8 ]

spi_read_relay ==
    [ name |-> "spi_read_relay", cmd |-> CMD_READ_RELAY,
      rx_buf |-> PtrField(OFFSETOF_relay), len |-> SIZEOF_UINT8 ]

\* variant: the two relay commands are exchanged
spi_set_relay_swapped(state) ==
    [ name |-> IF state # 0 THEN "spi_set_relay(1)" ELSE "spi_set_relay(0)",
      cmd |-> IF state # 0 THEN CMD_SET_RELAY_OFF ELSE CMD_SET_RELAY_ON,
      rx_buf |-> PtrField(OFFSETOF_relay), len |-> SIZEOF_UINT8 ]

spi_set_relay(state) ==
    [ name |-> IF state # 0 THEN "spi_set_relay(1)" ELSE "spi_set_relay(0)",
      cmd |-> IF state # 0 THEN CMD_SET_RELAY_ON ELSE CMD_SET_RELAY_OFF,
      rx_buf |-> PtrField(OFFSETOF_relay), len |-> SIZEOF_UINT8 ]

\* one printed message
Msg(s) == [ label |-> s, text |-> "" ]

NoCall == [ name |-> "none", cmd |-> 0, rx_buf |-> NULL, len |-> 0 ]

\* gs_homeoffice_data.relay ? "ON" : "OFF"
OnOff(b) == IF b # 0 THEN "ON" ELSE "OFF"

\* one printed value: the float's bytes, the factor it is multiplied by
Line(label, bits, scale, unit) ==
    [ label |-> label, bits |-> bits, scale |-> scale, unit |-> unit ]

RelayLine(mem) == [ label |-> "Relay", text |-> OnOff(relay(mem)) ]

\* variant: spi_read_all prints the relay from the byte after current
Printf_relay_after_current(fn, mem) ==
    CASE fn.name = "spi_read_voltage" ->
            << Line("Voltage", voltage(mem), 1, "V") >>
      [] fn.name = "spi_read_current" ->
            << Line("Current", current(mem), 1000, "mA") >>
      [] fn.name = "spi_read_power" ->
            << Line("Power", power(mem), 1000, "mW") >>
      [] fn.name = "spi_read_all" ->
            << Line("Voltage", voltage(mem), 1, "mV"),
               Line("Current", current(mem), 1000, "mA"),
               Line("Power", power(mem), 1000, "mW"),
               [ label |-> "Relay", text |-> OnOff(mem[OFFSETOF_power]) ] >>
      [] OTHER -> << RelayLine(mem) >>

\* the printf calls that end each operation
Printf(fn, mem) ==
    CASE fn.name = "spi_read_voltage" ->
            << Line("Voltage", voltage(mem), 1, "V") >>
      [] fn.name = "spi_read_current" ->
            << Line("Current", current(mem), 1000, "mA") >>
      [] fn.name = "spi_read_power" ->
            << Line("Power", power(mem), 1000, "mW") >>
      [] fn.name = "spi_read_all" ->
            << Line("Voltage", voltage(mem), 1, "mV"),
               Line("Current", current(mem), 1000, "mA"),
               Line("Power", power(mem), 1000, "mW"),
               RelayLine(mem) >>
      [] OTHER -> << RelayLine(mem) >>

\* variant: the cases follow the order of the command codes
Switch_by_code(c) ==
    CASE c = 1 -> spi_read_voltage
      [] c = 2 -> spi_read_current
      [] c = 3 -> spi_read_power
      [] c = 4 -> spi_read_relay
      [] c = 5 -> spi_read_all
      [] c = 6 -> spi_set_relay(1)
      [] c = 7 -> spi_set_relay(0)
      [] OTHER -> NoCall

\* switch (choice) of main
Switch(c) ==
    CASE c = 1 -> spi_read_power
      [] c = 2 -> spi_read_current
      [] c = 3 -> spi_read_voltage
      [] c = 4 -> spi_read_relay
      [] c = 5 -> spi_read_all
      [] c = 6 -> spi_set_relay(1)
      [] c = 7 -> spi_set_relay(0)
      [] OTHER -> NoCall

\* the integers scanf may store in choice
Ints == 0..9

(* ------------------------------- actions ------------------------------- *)

Init ==
    /\ pc = "spi_init_open"
    /\ gs_spi_fd = -1
    /\ fd_state = "none"
    /\ gs_homeoffice_data = ZeroBytes(SIZEOF_homeoffice_data)
    /\ choice = 0
    /\ call = NoCall
    /\ bus = << >>
    /\ sys = << >>
    /\ out = << >>
    /\ err = ""
    /\ exit_code = -1
    /\ entry_data = ZeroBytes(SIZEOF_homeoffice_data)
    /\ iter = 0
    /\ periph \in { [relay |-> r, cmd |-> 0] : r \in {0, 1} }
    /\ prev = [name |-> "none", relay |-> ""]

\* perror(msg); exit(1) after the system call ev
Die(ev, msg) ==
    /\ err' = msg
    /\ sys' = sys \o << ev, <<"exit", 1, 0>> >>
    /\ exit_code' = 1
    /\ pc' = "exited"

\* spi_init: gs_spi_fd = open(SPI_DEVICE, O_RDWR)
spi_init_open ==
    /\ pc = "spi_init_open"
    /\ \E ok \in BOOLEAN :
          IF ok
          THEN /\ gs_spi_fd' = FD_FIRST
               /\ fd_state' = "open"
               /\ sys' = Append(sys, <<"open", 0, FD_FIRST>>)
               /\ pc' = "spi_init_mode"
               /\ UNCHANGED <<err, exit_code>>
          ELSE /\ gs_spi_fd' = -1
               /\ fd_state' = fd_state
               /\ Die(<<"open", 0, -1>>, "Error opening SPI device")
    /\ UNCHANGED <<gs_homeoffice_data, choice, call, bus, out, entry_data, iter>>

\* variant: a rejected setting is reported but spi_init goes on
spi_init_ioctl_goes_on(here, next, req, arg, msg) ==
    /\ pc = here
    /\ \E ok \in BOOLEAN :
          /\ sys' = Append(sys, <<req, arg, IF ok THEN 0 ELSE -1>>)
          /\ err' = IF ok THEN err ELSE msg
          /\ pc' = next
          /\ UNCHANGED exit_code
    /\ UNCHANGED <<gs_spi_fd, fd_state, gs_homeoffice_data, choice, call, bus,
                   out, entry_data, iter>>

\* one ioctl of spi_init and its error branch
spi_init_ioctl(here, next, req, arg, msg) ==
    /\ pc = here
    /\ \E ok \in BOOLEAN :
          IF ok
          THEN /\ sys' = Append(sys, <<req, arg, 0>>)
               /\ pc' = next
               /\ UNCHANGED <<err, exit_code>>
          ELSE Die(<<req, arg, -1>>, msg)
    /\ UNCHANGED <<gs_spi_fd, fd_state, gs_homeoffice_data, choice, call, bus,
                   out, entry_data, iter>>

spi_init_mode ==
    spi_init_ioctl("spi_init_mode", "spi_init_bits", "SPI_IOC_WR_MODE",
                   SPI_MODE, "Error setting SPI mode")

spi_init_bits ==
    spi_init_ioctl("spi_init_bits", "spi_init_speed", "SPI_IOC_WR_BITS_PER_WORD",
                   SPI_BITS_PER_WORD, "Error setting SPI bits per word")

spi_init_speed ==
    spi_init_ioctl("spi_init_speed", "while", "SPI_IOC_WR_MAX_SPEED_HZ",
                   SPI_SPEED_HZ, "Error setting SPI speed")

\* one pass of the loop body up to the switch: clear, memset, menu, scanf
\* (conv: whether scanf converted an integer; if not, choice keeps its value)
Menu ==
    /\ pc = "while"
    /\ choice # 8
    /\ iter < MaxIter
    /\ \E conv \in BOOLEAN, n \in Ints :
          LET c == IF conv THEN n ELSE choice
              fn == Switch(c)
          IN  /\ choice' = c
              /\ call' = fn
              /\ out' = IF c = 8 THEN << Msg("Exiting...") >>
                        ELSE IF fn = NoCall THEN << Msg("Invalid choice") >>
                        ELSE << >>
              /\ pc' = IF fn = NoCall THEN "pause" ELSE "spi_write"
    /\ gs_homeoffice_data' = memset0(gs_homeoffice_data)
    /\ entry_data' = memset0(gs_homeoffice_data)
    /\ bus' = << >>
    /\ iter' = iter + 1
    /\ UNCHANGED <<gs_spi_fd, fd_state, sys, err, exit_code>>

\* the exchange made through spi_transfer, as the bus and the kernel see it
Exchange(r, miso, ok) == [ tx |-> r.sendbuf, rx |-> miso, failed |-> ~ok ]

\* the ioctl(SPI_IOC_MESSAGE(1)) of spi_transfer and what it returned
Ioctl(r, ok) == <<"SPI_IOC_MESSAGE", r.xfer_len, IF ok THEN r.xfer_len ELSE -1>>

\* first statement of the operation: spi_write(cmd)
SpiWrite ==
    /\ pc = "spi_write"
    /\ \E ok \in BOOLEAN, miso \in RxFrames :
          LET r == spi_write(call.cmd, ok, miso, gs_homeoffice_data)
          IN  /\ bus' = Append(bus, Exchange(r, miso, ok))
              /\ gs_homeoffice_data' = r.mem
              /\ IF r.failed
                 THEN Die(Ioctl(r, ok), "Error transferring SPI data")
                 ELSE /\ sys' = Append(sys, Ioctl(r, ok))
                      /\ pc' = "spi_read"
                      /\ UNCHANGED <<err, exit_code>>
    /\ UNCHANGED <<gs_spi_fd, fd_state, choice, call, out, entry_data, iter>>

\* second and third statements: spi_read(&field, size); printf(...)
SpiRead ==
    /\ pc = "spi_read"
    /\ \E ok \in BOOLEAN, miso \in RxFrames :
          LET r == spi_read(call.rx_buf, call.len, ok, miso, gs_homeoffice_data)
          IN  /\ bus' = Append(bus, Exchange(r, miso, ok))
              /\ gs_homeoffice_data' = r.mem
              /\ IF r.failed
                 THEN /\ Die(Ioctl(r, ok), "Error transferring SPI data")
                      /\ out' = out
                 ELSE /\ sys' = Append(sys, Ioctl(r, ok))
                      /\ out' = out \o Printf(call, r.mem)
                      /\ pc' = "pause"
                      /\ UNCHANGED <<err, exit_code>>
    /\ UNCHANGED <<gs_spi_fd, fd_state, choice, call, entry_data, iter>>

\* end of the loop body: flush stdin, wait for [ENTER]
Pause ==
    /\ pc = "pause"
    /\ pc' = "while"
    /\ UNCHANGED <<gs_spi_fd, fd_state, gs_homeoffice_data, choice, call, bus,
                   sys, out, err, exit_code, entry_data, iter>>

\* the loop has ended: close(gs_spi_fd); return 0
Close ==
    /\ pc = "while"
    /\ choice = 8
    /\ fd_state' = "closed"
    /\ sys' = sys \o << <<"close", gs_spi_fd, 0>>, <<"exit", 0, 0>> >>
    /\ exit_code' = 0
    /\ pc' = "exited"
    /\ UNCHANGED <<gs_spi_fd, gs_homeoffice_data, choice, call, bus, out, err,
                   entry_data, iter>>

\* the peripheral is not looked at: any frame may come back
Unobserved == UNCHANGED <<periph, prev>>

Next ==
    \/ spi_init_open /\ Unobserved
    \/ spi_init_mode /\ Unobserved
    \/ spi_init_bits /\ Unobserved
    \/ spi_init_speed /\ Unobserved
    \/ Menu /\ Unobserved
    \/ SpiWrite /\ Unobserved
    \/ SpiRead /\ Unobserved
    \/ Pause /\ Unobserved
    \/ Close /\ Unobserved

Spec == Init /\ [][Next]_vars

(* ----------------------------- the peripheral -------------------------- *)

\* the peripheral after it has received the frame tx: a relay command is
\* applied, and a command code is remembered as the one to answer
PeriphAfter(p, tx) ==
    [ relay |-> IF tx[0] = CMD_SET_RELAY_ON THEN 1
                ELSE IF tx[0] = CMD_SET_RELAY_OFF THEN 0
                ELSE p.relay,
      cmd |-> IF tx[0] \in 1..7 THEN tx[0] ELSE p.cmd ]

\* the frames the peripheral may send while the command it answers is
\* p.cmd: to a relay command the payload byte is non-zero exactly when the
\* relay is on, to readAll the relay byte of the structure is; the other
\* bytes are left open
PeriphAnswers(p) ==
    { f \in RxFrames :
        /\ p.cmd \in {CMD_READ_RELAY, CMD_SET_RELAY_ON, CMD_SET_RELAY_OFF} =>
              ((f[PAYLOAD_OFFSET] # 0) <=> (p.relay # 0))
        /\ p.cmd = CMD_READ_ALL =>
              ((f[PAYLOAD_OFFSET + OFFSETOF_relay] # 0) <=> (p.relay # 0)) }

\* the relay line among the printed lines o, "" if there is none
RelayShown(o) ==
    IF o # << >> /\ o[Len(o)].label = "Relay" THEN o[Len(o)].text ELSE ""

\* the frame received in the exchange just made is an answer of the
\* peripheral to the command it had before this exchange
Answered == bus'[Len(bus')].rx \in PeriphAnswers(periph)

\* the peripheral takes in the frame just sent; the iteration that a new
\* pass of the menu ends is remembered
Observed ==
    /\ periph' = IF Len(bus') > Len(bus)
                 THEN PeriphAfter(periph, bus'[Len(bus')].tx)
                 ELSE periph
    /\ prev' = IF iter' # iter
               THEN [name |-> call.name, relay |-> RelayShown(out)]
               ELSE prev

NextPeriph ==
    \/ spi_init_open /\ Observed
    \/ spi_init_mode /\ Observed
    \/ spi_init_bits /\ Observed
    \/ spi_init_speed /\ Observed
    \/ Menu /\ Observed
    \/ SpiWrite /\ Answered /\ Observed
    \/ SpiRead /\ Answered /\ Observed
    \/ Pause /\ Observed
    \/ Close /\ Observed

SpecPeriph == Init /\ [][NextPeriph]_vars

TypeOK ==
    /\ pc \in {"spi_init_open", "spi_init_mode", "spi_init_bits",
               "spi_init_speed", "while", "spi_write", "spi_read", "pause",
               "exited"}
    /\ gs_spi_fd \in {-1, FD_FIRST}
    /\ fd_state \in {"none", "open", "closed"}
    /\ gs_homeoffice_data \in [0..(SIZEOF_homeoffice_data - 1) -> Byte]
    /\ choice \in Ints
    /\ exit_code \in {-1, 0, 1}
    /\ iter \in 0..MaxIter

(* ------------------------------ properties ----------------------------- *)

ReadOps == {"spi_read_voltage", "spi_read_current", "spi_read_power",
            "spi_read_relay", "spi_read_all"}

OpNames == ReadOps \cup {"spi_set_relay(1)", "spi_set_relay(0)"}

\* an operation has returned to main: both statements and its printf ran
OpDone == pc = "pause" /\ call.name \in OpNames

\* the exchanges among the system calls made so far
Exchanges == { k \in 1..Len(sys) : sys[k][1] = "SPI_IOC_MESSAGE" }

AllZeroFrom(f, lo) == \A i \in lo..(FRAME_LEN - 1) : f[i] = 0

\* the bytes of gs_homeoffice_data the operation's spi_read stored
Stored(fn, mem) == Bytes(mem, fn.rx_buf.off, fn.len)

\* C1 as stated: a finished read operation has made exactly one exchange,
\* which sent the command and whose reply supplied the decoded payload.
C1_OneExchange ==
    (OpDone /\ call.name \in ReadOps) =>
        /\ Len(bus) = 1
        /\ bus[1].tx[0] = call.cmd
        /\ Stored(call, gs_homeoffice_data)
              = Bytes(bus[1].rx, PAYLOAD_OFFSET, call.len)

\* C1 amended: a read operation makes exactly two exchanges: the first sends
\* the command frame, the second sends an all-zero frame, and the payload
\* decoded is taken from the reply to the second; no operation ever has
\* more than two exchanges.
C1_TwoExchanges ==
    /\ Len(bus) <= 2
    /\ (OpDone /\ call.name \in ReadOps) =>
          /\ Len(bus) = 2
          /\ bus[1].tx[0] = call.cmd
          /\ AllZeroFrom(bus[2].tx, 0)
          /\ Stored(call, gs_homeoffice_data)
                = Bytes(bus[2].rx, PAYLOAD_OFFSET, call.len)

\* a read finished whose two replies differ, the decoded bytes being those
\* of the second reply and not of the first
C1_Witness ==
    /\ OpDone
    /\ call.name = "spi_read_current"
    /\ Len(bus) = 2
    /\ Stored(call, gs_homeoffice_data)
          # Bytes(bus[1].rx, PAYLOAD_OFFSET, call.len)
    /\ Stored(call, gs_homeoffice_data) = <<19, 20, 21, 22>>

\* the code the specification assigns to each operation
CodeOf(name) ==
    CASE name = "spi_read_voltage" -> 1
      [] name = "spi_read_current" -> 2
      [] name = "spi_read_power" -> 3
      [] name = "spi_read_relay" -> 4
      [] name = "spi_read_all" -> 5
      [] name = "spi_set_relay(1)" -> 6
      [] name = "spi_set_relay(0)" -> 7

\* C2: the command frame of every operation is 20 bytes long, byte 0 is the
\* operation's code, bytes 1..19 are zero, and the seven codes are distinct.
C2_CommandFrame ==
    /\ Cardinality({ CodeOf(n) : n \in OpNames }) = 7
    /\ Len(bus) >= 1 =>
          /\ call.name \in OpNames
          /\ DOMAIN bus[1].tx = 0..19
          /\ bus[1].tx[0] = CodeOf(call.name)
          /\ \A i \in 1..19 : bus[1].tx[i] = 0
          /\ \E k \in Exchanges : sys[k][2] = 20

\* the relay-off command frame is on the bus
C2_Witness ==
    /\ Len(bus) >= 1
    /\ call.name = "spi_set_relay(0)"
    /\ bus[1].tx[0] = 7
    /\ ~bus[1].failed

\* C3 as stated: every outgoing frame carries a command code in byte 0 and
\* zeros in bytes 1..19.
C3_EveryFrameHasCode ==
    \A k \in 1..Len(bus) :
        /\ bus[k].tx[0] \in 1..7
        /\ AllZeroFrom(bus[k].tx, 1)

\* C3 amended: every outgoing frame has bytes 1..19 zero; byte 0 is a
\* command code 0x01..0x07 in the first exchange of an operation and zero
\* (no command code) in the second.
C3_CodeOrZero ==
    \A k \in 1..Len(bus) :
        /\ AllZeroFrom(bus[k].tx, 1)
        /\ (k = 1 => bus[k].tx[0] \in 1..7)
        /\ (k # 1 => bus[k].tx[0] = 0)

\* both exchanges of an operation were issued after earlier operations
C3_Witness ==
    /\ iter >= 2
    /\ Cardinality(Exchanges) >= 4
    /\ Len(bus) = 2
    /\ bus[1].tx[0] = CMD_READ_ALL
    /\ bus[2].tx[0] = 0

\* the reply the operation decoded: that of its second exchange
Reply == bus[2].rx

\* mem with the n bytes at off replaced by the bytes of frame f from 3 on
Expect(mem, off, f, n) ==
    [i \in 0..15 |-> IF off <= i /\ i < off + n THEN f[3 + (i - off)] ELSE mem[i]]

\* C4: what a finished operation decoded is exactly the reply's bytes from
\* offset 3 on; replacing bytes 0..2 of the reply by any other header
\* (an echo byte that does not match the command included) decodes to the
\* same reading, and no error is raised.
C4_PayloadFromOffset3 ==
    OpDone =>
        /\ gs_homeoffice_data
              = Expect(entry_data, call.rx_buf.off, Reply, call.len)
        /\ \A h \in Headers :
              LET f == [i \in 0..19 |-> IF i < 3 THEN h[i] ELSE Reply[i]]
                  r == spi_read(call.rx_buf, call.len, TRUE, f, entry_data)
              IN  /\ ~r.failed
                  /\ r.mem = gs_homeoffice_data
                  /\ Printf(call, r.mem) = out
        /\ err = ""
        /\ exit_code = -1

\* a reply whose echo byte is neither zero nor the command sent was decoded
C4_Witness ==
    /\ OpDone
    /\ call.name = "spi_read_voltage"
    /\ Reply[2] = 255
    /\ Reply[2] # call.cmd
    /\ voltage(gs_homeoffice_data) = <<19, 20, 21, 22>>

\* number of payload bytes the specification gives for each operation
LenOf(name) ==
    CASE name \in {"spi_read_voltage", "spi_read_current", "spi_read_power"} -> 4
      [] name \in {"spi_read_relay", "spi_set_relay(1)", "spi_set_relay(0)"} -> 1
      [] name = "spi_read_all" -> 9

\* where each operation stores what it reads
FieldOf(name) ==
    CASE name = "spi_read_voltage" -> 0
      [] name = "spi_read_current" -> 4
      [] name = "spi_read_power" -> 8
      [] name = "spi_read_all" -> 0
      [] OTHER -> 12

\* C5 as stated: the bytes taken from the reply are 4 for the three float
\* reads, 1 for readRelay and setRelay, and 9 for readAll.
C5_LenTable ==
    OpDone =>
        gs_homeoffice_data
           = Expect(entry_data, FieldOf(call.name), Reply, LenOf(call.name))

\* C5 amended: 4 for the three float reads, 1 for readRelay and setRelay,
\* and 16 for readAll, the size of the packed, 4-aligned structure.
C5_LenTable16 ==
    OpDone =>
        gs_homeoffice_data
           = Expect(entry_data, FieldOf(call.name), Reply,
                    IF call.name = "spi_read_all" THEN 16 ELSE LenOf(call.name))

\* readAll decoded a reply none of whose bytes is zero: all 16 bytes of the
\* structure, the 3 after the relay included, are reply bytes
C5_Witness ==
    /\ OpDone
    /\ call.name = "spi_read_all"
    /\ \A i \in 0..15 : gs_homeoffice_data[i] = 16 + (3 + i)

\* C6: after readAll, voltage is frame bytes 3..6, current 7..10, power
\* 11..14 and relay byte 15: consecutive fields with nothing between them.
C6_AllLayout ==
    (OpDone /\ call.name = "spi_read_all") =>
        /\ voltage(gs_homeoffice_data)
              = <<Reply[3], Reply[4], Reply[5], Reply[6]>>
        /\ current(gs_homeoffice_data)
              = <<Reply[7], Reply[8], Reply[9], Reply[10]>>
        /\ power(gs_homeoffice_data)
              = <<Reply[11], Reply[12], Reply[13], Reply[14]>>
        /\ relay(gs_homeoffice_data) = Reply[15]

\* readAll decoded the descending ramp: every field holds different bytes
C6_Witness ==
    /\ OpDone
    /\ call.name = "spi_read_all"
    /\ voltage(gs_homeoffice_data) = <<252, 251, 250, 249>>
    /\ power(gs_homeoffice_data) = <<244, 243, 242, 241>>
    /\ relay(gs_homeoffice_data) = 240

\* the reading readAll printed: voltage, current, power bytes and relay text
Shown == [ voltage |-> out[1].bits, current |-> out[2].bits,
           power |-> out[3].bits, relay |-> out[4].text ]

\* C7 as stated: with V at payload bytes 0..3, I at 4..7 and the relay byte
\* at payload offset 8, readAll yields those voltage, current and relay.
C7_RoundTrip9 ==
    (OpDone /\ call.name = "spi_read_all") =>
        /\ Shown.voltage = Bytes(Reply, 3, 4)
        /\ Shown.current = Bytes(Reply, 3 + 4, 4)
        /\ relay(gs_homeoffice_data) = Reply[3 + 8]
        /\ Shown.relay = OnOff(Reply[3 + 8])

\* C7 amended: with V at payload bytes 0..3, I at 4..7, P at 8..11 and the
\* relay byte at payload offset 12, readAll yields those voltage, current
\* and power bit for bit and the relay as that byte.
C7_RoundTrip13 ==
    (OpDone /\ call.name = "spi_read_all") =>
        /\ Len(out) = 4
        /\ Shown.voltage = Bytes(Reply, 3, 4)
        /\ Shown.current = Bytes(Reply, 3 + 4, 4)
        /\ Shown.power = Bytes(Reply, 3 + 8, 4)
        /\ relay(gs_homeoffice_data) = Reply[3 + 12]
        /\ Shown.relay = OnOff(Reply[3 + 12])

\* readAll printed 0.5 (00 00 00 3F) three times and the relay ON while the
\* byte at payload offset 8 is zero
C7_Witness ==
    /\ OpDone
    /\ call.name = "spi_read_all"
    /\ Shown.voltage = <<0, 0, 0, 63>>
    /\ Shown.power = <<0, 0, 0, 63>>
    /\ Reply[3 + 8] = 0
    /\ Shown.relay = "ON"

\* the process has terminated, and exit is the last thing it did
Terminated ==
    /\ pc = "exited"
    /\ sys[Len(sys)][1] = "exit"
    /\ \A k \in 1..(Len(sys) - 1) : sys[k][1] # "exit"

\* what holds in every state once an exchange has failed
AfterFailedTransfer ==
    /\ \A k \in 1..Len(bus) :
          bus[k].failed =>
              /\ k = Len(bus)
              /\ Terminated
              /\ exit_code = 1
              /\ err = "Error transferring SPI data"
              /\ gs_homeoffice_data = entry_data
              /\ out = << >>
    /\ \A k \in Exchanges :
          sys[k][3] < 0 =>
              /\ k = Len(sys) - 1
              /\ sys[k + 1] = <<"exit", 1, 0>>
              /\ Len(bus) >= 1
              /\ bus[Len(bus)].failed

\* C8: if an exchange fails, nothing is decoded or printed for the
\* operation, gs_homeoffice_data is what it was when the operation was
\* invoked, the process has terminated, and from then on nothing happens:
\* no exchange, no retry, no return to the menu.
C8_TransferFailureFatal ==
    /\ [] AfterFailedTransfer
    /\ [][pc = "exited" => (pc' = "exited" /\ sys' = sys /\ bus' = bus)]_vars

\* the read exchange of a later operation failed with a non-zero reply in
\* recvbuf, after the command exchange had succeeded
C8_Witness ==
    /\ iter >= 2
    /\ Len(bus) = 2
    /\ ~bus[1].failed
    /\ bus[2].failed
    /\ bus[2].rx[3] # 0
    /\ pc = "exited"

\* the calls of spi_init, in the order of the source
InitCalls == << <<"open", 0>>,
                <<"SPI_IOC_WR_MODE", 0>>,
                <<"SPI_IOC_WR_BITS_PER_WORD", 8>>,
                <<"SPI_IOC_WR_MAX_SPEED_HZ", 100000>> >>

IsInitCall(name) == \E j \in 1..4 : InitCalls[j][1] = name

\* C9: the device is opened once and configured once, mode then word width
\* then speed, before the first exchange and never afterwards; if the open
\* or a configuration step fails the process terminates with no exchange.
C9_InitOnceBeforeExchange ==
    /\ \A k \in 1..Len(sys) :
          IsInitCall(sys[k][1]) =>
              /\ k <= 4
              /\ <<sys[k][1], sys[k][2]>> = InitCalls[k]
    /\ \A k \in Exchanges :
          /\ k > 4
          /\ \A j \in 1..4 :
                <<sys[j][1], sys[j][2]>> = InitCalls[j] /\ sys[j][3] >= 0
    /\ \A k \in 1..Len(sys) :
          (IsInitCall(sys[k][1]) /\ sys[k][3] < 0) =>
              /\ Terminated
              /\ exit_code = 1
              /\ Len(sys) = k + 1
              /\ Exchanges = {}
              /\ bus = << >>

\* exchanges were issued, after the four calls of spi_init all succeeded
C9_Witness ==
    /\ Cardinality(Exchanges) >= 3
    /\ sys[1] = <<"open", 0, 3>>
    /\ sys[4] = <<"SPI_IOC_WR_MAX_SPEED_HZ", 100000, 0>>
    /\ sys[5][1] = "SPI_IOC_MESSAGE"

\* the positions of close in the calls made so far
Closes == { k \in 1..Len(sys) : sys[k][1] = "close" }

\* C10: whenever the process has terminated after a successful open, the
\* handle was closed before the exit, and no exchange follows the close.
C10_ClosedBeforeExit ==
    (pc = "exited" /\ Len(sys) >= 1 /\ sys[1] = <<"open", 0, 3>>) =>
        /\ fd_state = "closed"
        /\ \E c \in Closes : c < Len(sys)
        /\ \A c \in Closes : \A k \in Exchanges : k < c

\* the bytes of the structure outside a field are the same in m and e
SameOutside(m, e, off, n) ==
    \A i \in 0..15 : (i < off \/ i >= off + n) => m[i] = e[i]

\* C13: readVoltage changes only the voltage field of gs_homeoffice_data,
\* readCurrent only current, readPower only power, readRelay and setRelay
\* only relay; the rest is what it was when the operation was entered, and
\* the field written holds the reply's payload.
C13_OnlyOwnField ==
    LET d == gs_homeoffice_data
        e == entry_data
    IN  /\ pc = "spi_read" => d = e
        /\ (OpDone /\ call.name = "spi_read_voltage") =>
              /\ voltage(d) = Bytes(Reply, 3, 4)
              /\ current(d) = current(e) /\ power(d) = power(e)
              /\ relay(d) = relay(e)
              /\ SameOutside(d, e, 0, 4)
        /\ (OpDone /\ call.name = "spi_read_current") =>
              /\ current(d) = Bytes(Reply, 3, 4)
              /\ voltage(d) = voltage(e) /\ power(d) = power(e)
              /\ relay(d) = relay(e)
              /\ SameOutside(d, e, 4, 4)
        /\ (OpDone /\ call.name = "spi_read_power") =>
              /\ power(d) = Bytes(Reply, 3, 4)
              /\ voltage(d) = voltage(e) /\ current(d) = current(e)
              /\ relay(d) = relay(e)
              /\ SameOutside(d, e, 8, 4)
        /\ (OpDone /\ call.name \in {"spi_read_relay", "spi_set_relay(1)",
                                     "spi_set_relay(0)"}) =>
              /\ relay(d) = Reply[3]
              /\ voltage(d) = voltage(e) /\ current(d) = current(e)
              /\ power(d) = power(e)
              /\ SameOutside(d, e, 12, 1)

\* readCurrent stored a payload of non-zero bytes in current and nowhere else
C13_Witness ==
    /\ OpDone
    /\ call.name = "spi_read_current"
    /\ current(gs_homeoffice_data) = <<252, 251, 250, 249>>
    /\ power(gs_homeoffice_data) = <<0, 0, 0, 0>>
    /\ voltage(gs_homeoffice_data) = <<0, 0, 0, 0>>

\* the operation and the command code the menu gives each choice
MenuOp(c) ==
    CASE c = 1 -> "spi_read_power"
      [] c = 2 -> "spi_read_current"
      [] c = 3 -> "spi_read_voltage"
      [] c = 4 -> "spi_read_relay"
      [] c = 5 -> "spi_read_all"
      [] c = 6 -> "spi_set_relay(1)"
      [] c = 7 -> "spi_set_relay(0)"

MenuCode(c) ==
    CASE c = 1 -> 3 [] c = 2 -> 2 [] c = 3 -> 1 [] c = 4 -> 4
      [] c = 5 -> 5 [] c = 6 -> 6 [] c = 7 -> 7

MenuState ==
    /\ Len(bus) >= 1 =>
          /\ choice \in 1..7
          /\ call.name = MenuOp(choice)
          /\ bus[1].tx[0] = MenuCode(choice)
    /\ choice \notin 1..7 => bus = << >>
    /\ exit_code = 0 =>
          /\ choice = 8
          /\ fd_state = "closed"
          /\ Len(sys) >= 2
          /\ sys[Len(sys) - 1] = <<"close", gs_spi_fd, 0>>
          /\ sys[Len(sys)] = <<"exit", 0, 0>>
    /\ (pc = "exited" /\ choice = 8) => exit_code = 0
    /\ (pc = "while" /\ choice # 8 /\ iter < MaxIter) => ENABLED Menu
    /\ (pc = "while" /\ choice = 8) => (ENABLED Close /\ ~ENABLED Menu)

MenuStep ==
    /\ choice' \notin 1..7 => Exchanges' = Exchanges
    /\ (pc = "while" /\ choice = 8) =>
          (pc' = "exited" /\ exit_code' = 0 /\ fd_state' = "closed")
    /\ (pc = "while" /\ choice # 8) =>
          (iter' = iter + 1 /\ pc' \in {"spi_write", "pause"})
    /\ pc = "pause" => pc' = "while"
    /\ (pc' = "exited" /\ exit_code' = 0) => (pc = "while" /\ choice = 8)

\* C14: exchanges are issued only for choices 1..7, each by the operation
\* its label names (1 power/3, 2 current/2, 3 voltage/1, 4 relay/4, 5 all/5,
\* 6 on/6, 7 off/7); any other choice issues none; the loop ends, closes the
\* handle and exits with 0 exactly when choice is 8, and otherwise goes
\* round again.
C14_MenuDispatch == [] MenuState /\ [][MenuStep]_vars

\* readPower ran from choice 1, then the exit choice ended the program
C14_Witness ==
    /\ pc = "exited"
    /\ exit_code = 0
    /\ choice = 8
    /\ call = NoCall
    /\ Cardinality(Exchanges) = 4

\* C15: every memcpy of spi_transfer stays inside the 20-byte buffers: at
\* most 20 bytes go into sendbuf, and 3 + the bytes copied out of recvbuf is
\* at most 20, so no operation takes more than 17 payload bytes.
C15_CopiesInsideFrame ==
    (pc \in {"spi_write", "spi_read", "pause"} /\ call # NoCall) =>
        LET w == spi_write_call(call.cmd)
            r == spi_read_call(call.rx_buf, call.len)
        IN  /\ tx_copy_len(w.tx_buf, w.len) <= 20
            /\ tx_copy_len(w.tx_buf, w.len) <= Cardinality(DOMAIN w.tx_buf.bytes)
            /\ rx_copy_end(w.rx_buf, w.len) <= 20
            /\ tx_copy_len(r.tx_buf, r.len) <= 20
            /\ rx_copy_end(r.rx_buf, r.len) <= 20
            /\ rx_copy_end(r.rx_buf, r.len) = 3 + call.len
            /\ call.len <= 17

\* readAll, the longest copy, took frame byte 18 as its last byte
C15_Witness ==
    /\ OpDone
    /\ call.name = "spi_read_all"
    /\ rx_copy_end(call.rx_buf, call.len) = 19
    /\ gs_homeoffice_data[15] = Reply[18]
    /\ Reply[18] # 0

\* C16: the reply received in the exchange that carries the command has no
\* influence on the reading: after that exchange nothing is stored or
\* printed, and had that reply been any other frame, gs_homeoffice_data and
\* the printed lines after the operation would be the same; they are fixed
\* by the reply to the all-zero exchange that follows.
C16_CommandReplyIgnored ==
    /\ pc = "spi_read" => (gs_homeoffice_data = entry_data /\ out = << >>)
    /\ OpDone =>
          \A f \in RxFrames :
              LET w == spi_write(call.cmd, TRUE, f, entry_data)
                  r == spi_read(call.rx_buf, call.len, TRUE, Reply, w.mem)
              IN  /\ r.mem = gs_homeoffice_data
                  /\ Printf(call, r.mem) = out

\* the command exchange received a non-zero payload, the following exchange
\* an all-zero one, and the reading is all zero
C16_Witness ==
    /\ OpDone
    /\ call.name = "spi_read_relay"
    /\ bus[1].rx[3] # 0
    /\ \A i \in 3..19 : Reply[i] = 0
    /\ gs_homeoffice_data = ZeroBytes(16)
    /\ out = << [ label |-> "Relay", text |-> "OFF" ] >>

\* C11 (under SpecPeriph): setRelay(b) prints the state b it has just set,
\* and a readRelay that follows it immediately prints b, for b on and off.
C11_SetThenRead ==
    /\ (OpDone /\ call.name = "spi_set_relay(1)") =>
          (RelayShown(out) = "ON" /\ relay(gs_homeoffice_data) # 0
             /\ periph.relay = 1)
    /\ (OpDone /\ call.name = "spi_set_relay(0)") =>
          (RelayShown(out) = "OFF" /\ relay(gs_homeoffice_data) = 0
             /\ periph.relay = 0)
    /\ (OpDone /\ call.name = "spi_read_relay"
              /\ prev.name = "spi_set_relay(1)") => RelayShown(out) = "ON"
    /\ (OpDone /\ call.name = "spi_read_relay"
              /\ prev.name = "spi_set_relay(0)") => RelayShown(out) = "OFF"

\* after an earlier operation the relay was switched on, setRelay showed
\* ON, and the readRelay right after it shows ON
C11_Witness ==
    /\ iter = 3
    /\ OpDone
    /\ call.name = "spi_read_relay"
    /\ prev = [name |-> "spi_set_relay(1)", relay |-> "ON"]
    /\ RelayShown(out) = "ON"
    /\ periph = [relay |-> 1, cmd |-> CMD_READ_RELAY]

\* C12 (under SpecPeriph): two readRelay in a row, the relay not having
\* changed in between, print the same state, whatever ran before them.
C12_ReadRelayTwice ==
    (OpDone /\ call.name = "spi_read_relay" /\ prev.name = "spi_read_relay") =>
        RelayShown(out) = prev.relay

\* after an earlier operation, readRelay ran twice and showed ON both times
C12_Witness ==
    /\ iter = 3
    /\ OpDone
    /\ call.name = "spi_read_relay"
    /\ prev = [name |-> "spi_read_relay", relay |-> "ON"]
    /\ RelayShown(out) = "ON"

\* C17: gs_homeoffice_data is all zero at the start of every menu iteration:
\* until the operation's read it holds nothing, when the operation prints
\* every byte it has not written in this iteration is zero, and what is
\* printed comes from this iteration's reply alone.
C17_ResetEachIteration ==
    /\ entry_data = ZeroBytes(16)
    /\ pc \in {"spi_write", "spi_read"} =>
          (gs_homeoffice_data = ZeroBytes(16) /\ out = << >>)
    /\ (pc = "pause" /\ call = NoCall) => gs_homeoffice_data = ZeroBytes(16)
    /\ OpDone =>
          /\ SameOutside(gs_homeoffice_data, ZeroBytes(16),
                         call.rx_buf.off, call.len)
          /\ out = Printf(call, Expect(ZeroBytes(16), call.rx_buf.off,
                                       Reply, call.len))

\* a later operation, readRelay, printed ON after an earlier operation had
\* run to its end; all bytes but the relay are zero
C17_Witness ==
    /\ iter >= 2
    /\ Cardinality(Exchanges) >= 4
    /\ OpDone
    /\ call.name = "spi_read_relay"
    /\ RelayShown(out) = "ON"
    /\ SameOutside(gs_homeoffice_data, ZeroBytes(16), 12, 1)

====
